---- MODULE Spec2Model ----
(***************************************************************************)
(* Name-art generator of script.js (lines 476-730): the seeded RNG, the    *)
(* selector, the canvas sizing, the four paint layers and the orchestrator *)
(* with its forge / shuffle / download / resize handlers.                  *)
(*                                                                         *)
(* Conventions of the model                                                *)
(*  - A string is a sequence of one-character strings.                     *)
(*  - A seed is a number of hundredths: seed 42 stands for 0.42.           *)
(*  - A draw of the RNG is kept as its numerator u, the returned double    *)
(*    being u / 2147483647.  A painted parameter computed from a draw is   *)
(*    kept as a tuple of its coefficients and u (the map is injective in   *)
(*    u, so two parameters are equal iff their tuples are).                *)
(*  - Lengths that the code keeps as fractions are kept as <<num, den>>.   *)
(***************************************************************************)
EXTENDS Integers, Sequences, FiniteSets, TLC

(***************************************************************************)
(* Bounds of the model.                                                    *)
(***************************************************************************)
\* the timer ids setTimeout can return are 1..MaxTimerId
MaxTimerId == 2
\* the count of resize events of one burst stops at MaxBurst
MaxBurst == 3

\* seeds are counted in hundredths
SeedDen == 100
\* the values Math.random() returns in the model: 0.42 and 0
Seeds == {42, 0}

Undefined == "undefined"

(***************************************************************************)
(* Strings.                                                                *)
(***************************************************************************)
LowerLetters ==
  {"a","b","c","d","e","f","g","h","i","j","k","l","m",
   "n","o","p","q","r","s","t","u","v","w","x","y","z"}
UpperLetters ==
  {"A","B","C","D","E","F","G","H","I","J","K","L","M",
   "N","O","P","Q","R","S","T","U","V","W","X","Y","Z"}
Digits == {"0","1","2","3","4","5","6","7","8","9"}
\* the characters String.prototype.trim removes that the inputs can hold
WhiteSpace == {" ", "\t", "\n"}

\* the class [a-z0-9] under the i flag
IsAlnum(c) == c \in LowerLetters \cup UpperLetters \cup Digits

RECURSIVE TrimStart(_)
TrimStart(s) ==
  IF s = <<>> THEN s
  ELSE IF Head(s) \in WhiteSpace THEN TrimStart(Tail(s)) ELSE s

RECURSIVE TrimEnd(_)
TrimEnd(s) ==
  IF s = <<>> THEN s
  ELSE IF s[Len(s)] \in WhiteSpace THEN TrimEnd(SubSeq(s, 1, Len(s) - 1)) ELSE s

\* String.prototype.trim
Trim(s) == TrimEnd(TrimStart(s))

\* s.replace(/[^a-z0-9]+/gi, '-'): every maximal run of characters outside
\* the class becomes one hyphen
RECURSIVE ReplaceNonAlnumRuns(_)
ReplaceNonAlnumRuns(s) ==
  IF s = <<>> THEN <<>>
  ELSE IF IsAlnum(Head(s)) THEN <<Head(s)>> \o ReplaceNonAlnumRuns(Tail(s))
  ELSE IF Len(s) > 1 /\ ~IsAlnum(s[2]) THEN ReplaceNonAlnumRuns(Tail(s))
  ELSE <<"-">> \o ReplaceNonAlnumRuns(Tail(s))

\* s.replace(/-+/g, '-'): every maximal run of hyphens becomes one hyphen
RECURSIVE CollapseHyphens(_)
CollapseHyphens(s) ==
  IF s = <<>> THEN <<>>
  ELSE IF Head(s) = "-" /\ Len(s) > 1 /\ s[2] = "-" THEN CollapseHyphens(Tail(s))
  ELSE <<Head(s)>> \o CollapseHyphens(Tail(s))

\* let lastName = 'Ada Lovelace'
DefaultName == <<"A","d","a"," ","L","o","v","e","l","a","c","e">>
\* name = 'Nameless Wonder'
FallbackName == <<"N","a","m","e","l","e","s","s"," ","W","o","n","d","e","r">>
\* the literal 'name-art' of handleDownload
DefaultBase == <<"n","a","m","e","-","a","r","t">>
PngSuffix == <<".","p","n","g">>

\* the texts the user can have typed into #name-input when the form is
\* submitted
InputValues ==
  { <<>>,
    <<" "," "," ">>,
    <<"N","o","v","a">>,
    <<"A","d","a"," ","L","o","v","e","l","a","c","e","!","!">>,
    <<"!","!","!">> }

(***************************************************************************)
(* Numbers.                                                                *)
(***************************************************************************)
Min(a, b) == IF a < b THEN a ELSE b
Max(a, b) == IF a > b THEN a ELSE b

\* const clamp = (value, min, max) => Math.max(min, Math.min(max, value))
clamp(value, min, max) == Max(min, Min(max, value))

\* clamp of the fraction num/den between the integers min and max, as a
\* fraction over the same denominator; den = 0 is the division by zero of
\* the code, whose quotient Infinity clamps to max
clampQ(num, den, min, max) ==
  IF den = 0 THEN <<max, 1>>
  ELSE <<clamp(num, min * den, max * den), den>>

\* Math.round of the non-negative fraction num/den
Round(num, den) == (2 * num + den) \div (2 * den)

\* the modulus and divisor of rngFromSeed
RngModulus == 2147483647

\* floor(u * n / RngModulus) for 0 <= u < RngModulus and 1 <= n, computed
\* without leaving 32-bit integers: the largest j with j * RngModulus <= u * n
FloorMul(u, n) ==
  LET q == RngModulus \div n
      r == RngModulus % n
  IN Cardinality({j \in 1..(n - 1) : j * q + (j * r + n - 1) \div n <= u})

(***************************************************************************)
(* Seeded RNG (rngFromSeed).  The 32-bit state t is kept as two 16-bit     *)
(* halves, hi * 65536 + lo being its unsigned value.                       *)
(***************************************************************************)
RECURSIVE Xor16(_, _)
Xor16(a, b) ==
  IF a = 0 THEN b
  ELSE IF b = 0 THEN a
  ELSE 2 * Xor16(a \div 2, b \div 2) + ((a + b) % 2)

\* a ^ b on 32-bit values
Xor32(a, b) == [hi |-> Xor16(a.hi, b.hi), lo |-> Xor16(a.lo, b.lo)]
\* t << 13, t >>> 17, t << 5 with 32-bit wraparound
Shl13(t) == [hi |-> (t.hi % 8) * 8192 + t.lo \div 8, lo |-> (t.lo % 8) * 8192]
Shr17(t) == [hi |-> 0, lo |-> t.hi \div 2]
Shl5(t) == [hi |-> (t.hi % 2048) * 32 + t.lo \div 2048, lo |-> (t.lo % 2048) * 32]

\* ToInt32 of the non-negative integer t.hi * 65536 + t.lo: the value modulo
\* 2^32.  A state the shifts and xors left is its own ToInt32.
ToInt32(t) == [hi |-> t.hi % 65536, lo |-> t.lo]

\* Math.floor(seed * 2147483647) for the seed s / SeedDen >= 0, as the pair
\* hi * 65536 + lo (lo < 65536; hi >= 65536 when the value is 2^32 or more),
\* computed without leaving 32-bit integers: 2147483647 = 32767 * 65536 + 65535
SeedFloor(s) ==
  LET a == s * 32767 + (s * 65535) \div 65536
      b == (s * 65535) % 65536
  IN [hi |-> a \div SeedDen, lo |-> ((a % SeedDen) * 65536 + b) \div SeedDen]

\* variant: a zero product is kept
OrOne_zero(t) == t

\* t || 1
OrOne(t) == IF t.hi = 0 /\ t.lo = 0 THEN [hi |-> 0, lo |-> 1] ELSE t

\* let t = Math.floor(seed * 2147483647) || 1 for the seed s / SeedDen >= 0
SeedState(s) == OrOne(SeedFloor(s))

\* the closure state right after rngFromSeed(seed)
rngFromSeed(s) == SeedState(s)

\* t ^= t << 13; t ^= t >>> 17; t ^= t << 5.  The bitwise operators take the
\* ToInt32 of their operands.
Xs13(t) == Xor32(t, Shl13(t))
Xs17(t) == Xor32(t, Shr17(t))
Xs5(t) == Xor32(t, Shl5(t))
XorShift(t) == Xs5(Xs17(Xs13(ToInt32(t))))

\* variant: t % 2147483647 without the sign test; the remainder has the
\* sign of t
DrawValue_signed(t) ==
  LET v == (t.hi % 32768) * 65536 + t.lo
  IN IF t.hi < 32768 THEN v % RngModulus
     ELSE IF v = 0 THEN -1
     ELSE -((RngModulus - v + 1) % RngModulus)

\* (t < 0 ? ~t + 1 : t) % 2147483647, the numerator of the returned draw.
\* t is negative iff bit 31 is set; then ~t + 1 = 2^32 - unsigned(t), which
\* is 2^31 - v for v the low 31 bits (2^31 itself when v = 0).
DrawValue(t) ==
  LET v == (t.hi % 32768) * 65536 + t.lo
  IN IF t.hi < 32768 THEN v % RngModulus
     ELSE IF v = 0 THEN 1
     ELSE (RngModulus - v + 1) % RngModulus

\* one call of the closure's body that leaves the state t1: the state and
\* the numerator u of the value returned
RngCall(t1) == <<[t |-> t1, u |-> DrawValue(t1)]>>

\* the closure's body, called n times from state t: for each call the state
\* it leaves and the numerator u of the value it returns
RECURSIVE RngCalls(_, _)
\* the calls a, followed by n more calls from the state the last of a left
RngThen(a, n) == a \o RngCalls(a[Len(a)].t, n)
RngCalls(t, n) ==
  IF n = 0 THEN <<>>
  ELSE IF n = 1 THEN RngCall(XorShift(t))
  ELSE RngThen(RngCalls(t, n \div 2), n - n \div 2)

\* the largest number of draws one forge can make:
\* palette, blobs (1 + 5 * 6), typography (3), sparks (1 + 5 * 149)
MaxDraws == 1 + (1 + 5 * 6) + 3 + (1 + 5 * 149)

\* for every seed, the calls of the closure built from it, in order
RngStream == [s \in Seeds |-> RngCalls(rngFromSeed(s), MaxDraws)]

\* the closure returned by rngFromSeed(seed), identified by its seed and the
\* number of calls made so far; its next draw is the next entry of the stream
NewRng(seed) == [seed |-> seed, calls |-> 0]
\* the numerator of the k-th next value rng() returns
Draw(rng, k) == RngStream[rng.seed][rng.calls + k].u
\* the closure after k more calls
Advance(rng, k) == [rng EXCEPT !.calls = @ + k]

(***************************************************************************)
(* Fixed tables.                                                           *)
(***************************************************************************)
fontFamilies ==
  << "\"Monoton\", cursive",
     "\"Bungee\", cursive",
     "\"Concert One\", sans-serif",
     "\"Orbitron\", sans-serif",
     "\"Press Start 2P\", cursive" >>

palettes ==
  << [name |-> "Aurora",
      background |-> <<"#061728", "#0d2a3d", "#143f5d">>,
      text |-> <<"#00f5d4", "#00bbf9", "#fe53bb">>,
      sparks |-> <<"#ffbf69", "#f5f5f5">>],
     [name |-> "Neon Sunset",
      background |-> <<"#1a0b2e", "#42047e", "#07f49e">>,
      text |-> <<"#ff61d2", "#fe9090", "#fecf33">>,
      sparks |-> <<"#ffffff", "#ffd6ff">>],
     [name |-> "Solar Flare",
      background |-> <<"#160f30", "#472783", "#f88c24">>,
      text |-> <<"#ffe066", "#ff5f6d", "#ffc371">>,
      sparks |-> <<"#fff9c4", "#ffadad">>],
     [name |-> "Cyber Dreams",
      background |-> <<"#050505", "#09203f", "#1e3c72">>,
      text |-> <<"#a8ff78", "#78ffd6", "#00d4ff">>,
      sparks |-> <<"#ffffff", "#b3f8ff">>],
     [name |-> "Candy Pulse",
      background |-> <<"#320d3e", "#641b4e", "#f55951">>,
      text |-> <<"#ff85a1", "#ffd4d4", "#ffe066">>,
      sparks |-> <<"#faf3dd", "#fcbf49">>] >>

\* array[Math.floor(rng() * array.length)]; an index outside the array reads
\* undefined (found tells whether the index is one of the array).  One call
\* of rng.
pickAt(array, i, rng) ==
  [value |-> IF i \in DOMAIN array THEN array[i] ELSE Undefined,
   found |-> i \in DOMAIN array,
   rng |-> Advance(rng, 1)]

\* variant: the index is rounded instead of floored
SelectorIndex_round(u, n) == FloorMul(u, 2 * n) - FloorMul(u, n)

\* Math.floor(rng() * array.length) for the draw u / RngModulus and the
\* length n
SelectorIndex(u, n) == FloorMul(u, n)

\* pick for the value u / RngModulus that its call of rng returns
pickWith(array, u, rng) == pickAt(array, SelectorIndex(u, Len(array)) + 1, rng)
pick(array, rng) == pickWith(array, Draw(rng, 1), rng)

(***************************************************************************)
(* The canvas and its 2d context.                                          *)
(*   cv.styleWidth, cv.styleHeight : canvas.style.width / height (px)      *)
(*   cv.width, cv.height           : the backing buffer                    *)
(*   cv.st                         : the context's drawing state           *)
(*   cv.stack                      : the states pushed by ctx.save()       *)
(*   cv.cmds                       : what was painted since the bitmap     *)
(*                                   was last cleared, each command with   *)
(*                                   the drawing state it was issued in,   *)
(*                                   as an index into cv.sts               *)
(*   cv.sts                        : the drawing states painted with, a    *)
(*                                   state shared by consecutive commands  *)
(*                                   being listed once                     *)
(* A number is a tuple of integers: <<n, d>> is n / d and <<k, a, b, u, d>>*)
(* is k * (a + b * u / RngModulus) / d for the draw u.                     *)
(***************************************************************************)
Whole(n) == <<n, 1>>
Frac(n, d) == <<n, d>>
Lin(a, b, u, d) == <<1, a, b, u, d>>
Scaled(k, a, b, u, d) == <<k, a, b, u, d>>

Color(css) == [css |-> css, params |-> <<>>]
SolidStyle(color) ==
  [kind |-> "color", geom |-> <<>>, stops |-> <<<<0, 1, color>>>>]

\* the state of a context whose canvas was just created or resized
DefaultCtxState ==
  [scale |-> 1,
   translate |-> <<Whole(0), Whole(0)>>,
   rotate |-> Whole(0),
   globalCompositeOperation |-> "source-over",
   globalAlpha |-> Whole(1),
   fillStyle |-> SolidStyle(Color("#000000")),
   strokeStyle |-> SolidStyle(Color("#000000")),
   lineWidth |-> Whole(1),
   lineJoin |-> "miter",
   shadowColor |-> "rgba(0, 0, 0, 0)",
   shadowBlur |-> Whole(0),
   shadowOffsetY |-> 0,
   font |-> [size |-> Whole(10), family |-> "sans-serif"],
   textAlign |-> "start",
   textBaseline |-> "alphabetic"]

\* the canvas element of the page before the script has run
BlankCanvas ==
  [styleWidth |-> 0, styleHeight |-> 0, width |-> 300, height |-> 150,
   st |-> DefaultCtxState, stack |-> <<>>, cmds |-> <<>>, sts |-> <<>>]

\* ctx.save() and ctx.restore()
Save(cv) == [cv EXCEPT !.stack = Append(@, cv.st)]
Restore(cv) ==
  IF cv.stack = <<>> THEN cv
  ELSE [cv EXCEPT !.st = cv.stack[Len(cv.stack)],
                  !.stack = SubSeq(cv.stack, 1, Len(cv.stack) - 1)]

\* a painting call (fillRect, fill, fillText, strokeText) under the current
\* drawing state
Paint(cv, op, args, text) ==
  LET sts == IF cv.sts # <<>> /\ cv.sts[Len(cv.sts)] = cv.st THEN cv.sts
             ELSE Append(cv.sts, cv.st)
  IN [cv EXCEPT !.sts = sts,
                !.cmds = Append(@, [op |-> op, args |-> args, text |-> text,
                                    st |-> Len(sts)])]

\* the colour stops of palette colours, evenly spaced by index:
\* addColorStop(idx / (length - 1 || 1), color)
EvenStops(colors) ==
  LET d == IF Len(colors) - 1 = 0 THEN 1 ELSE Len(colors) - 1
  IN [i \in 1..Len(colors) |-> <<i - 1, d, Color(colors[i])>>]

\* variant: the buffer is resized only when its size changes and the
\* transform is not reset before ctx.scale
fitCanvas_keep(cv, dpr, baseWidth, hc) ==
  LET ratio == IF dpr = 0 THEN 1 ELSE dpr
      width == Round(baseWidth, 1)
      height == Round(hc, 100)
      styled == [cv EXCEPT !.styleWidth = width, !.styleHeight = height]
      sized == IF cv.width = width * ratio /\ cv.height = height * ratio
               THEN styled
               ELSE [styled EXCEPT !.width = width * ratio,
                                   !.height = height * ratio,
                                   !.st = DefaultCtxState, !.stack = <<>>,
                                   !.cmds = <<>>, !.sts = <<>>]
  IN [sized EXCEPT !.st.scale = @ * ratio]

\* function fitCanvas(baseWidth, baseHeight); baseHeight is hc / 100.
\* Assigning canvas.width or canvas.height clears the bitmap and resets the
\* context to its default state.
fitCanvas(cv, dpr, baseWidth, hc) ==
  LET ratio == IF dpr = 0 THEN 1 ELSE dpr
      width == Round(baseWidth, 1)
      height == Round(hc, 100)
      sized == [cv EXCEPT !.styleWidth = width, !.styleHeight = height,
                          !.width = width * ratio, !.height = height * ratio,
                          !.st = DefaultCtxState, !.stack = <<>>,
                          !.cmds = <<>>, !.sts = <<>>]
      reset == [sized EXCEPT !.st.scale = 1,
                             !.st.translate = <<Whole(0), Whole(0)>>,
                             !.st.rotate = Whole(0)]
  IN [reset EXCEPT !.st.scale = @ * ratio]

(***************************************************************************)
(* The paint layers.  A layer takes and returns the accumulator            *)
(*   [cv |-> the canvas, rng |-> the closure, calls |-> the functions of   *)
(*    the script entered so far in this forge, in order].                  *)
(***************************************************************************)
Enter(acc, fn) ==
  [acc EXCEPT !.calls = Append(@, fn), !.marks = Append(@, acc.rng.calls)]

\* ctx.restore() at the end of a layer
RestoreCanvas(acc) == [acc EXCEPT !.cv = Restore(acc.cv)]

\* the body of one iteration of the glow loop of paintBackground, lines
\* 573-591, for the five values u1..u5 the iteration drew
GlowDisc(acc, width, hc, u1, u2, u3, u4, u5) ==
  LET hueShift == Lin(20, 80, u1, 1)
      alpha == Lin(8, 12, u2, 100)
      mn == Min(width * 100, hc)
      radius == Scaled(mn, 4, 8, u3, 2000)
      x == Scaled(width, 1, 8, u4, 10)
      y == Scaled(hc, 1, 8, u5, 1000)
      circleGradient ==
        [kind |-> "radial",
         geom |-> <<x, y, Scaled(15 * mn, 4, 8, u3, 200000), x, y, radius>>,
         stops |-> << <<0, 1, [css |-> "hsla(h, 90%, 70%, a)",
                               params |-> <<hueShift, alpha>>]>>,
                      <<1, 1, Color("rgba(0, 0, 0, 0)")>> >>]
      c1 == Save(acc.cv)
      c2 == [c1 EXCEPT !.st.globalCompositeOperation = "lighter",
                       !.st.fillStyle = circleGradient]
      c3 == Paint(c2, "fill arc", <<x, y, radius>>, <<>>)
  IN [acc EXCEPT !.cv = Restore(c3), !.rng = Advance(acc.rng, 5)]

\* variant: y is computed from the value drawn for x
GlowBlob_reuse(acc, width, hc) ==
  GlowDisc(acc, width, hc, Draw(acc.rng, 1), Draw(acc.rng, 2),
           Draw(acc.rng, 3), Draw(acc.rng, 4), Draw(acc.rng, 4))

\* one iteration of the glow loop of paintBackground: five draws, one
\* additive radial gradient disc
GlowBlob(acc, width, hc) ==
  GlowDisc(acc, width, hc, Draw(acc.rng, 1), Draw(acc.rng, 2),
           Draw(acc.rng, 3), Draw(acc.rng, 4), Draw(acc.rng, 5))

\* iterations lo..hi of for (let i = 0; i < layers; i += 1)
RECURSIVE GlowLoop(_, _, _, _, _)
\* the iterations run in order: the iterations before lo are complete (their
\* draws are made, leaving done) before iteration lo starts
GlowRest(acc, done, width, hc, lo, hi) ==
  IF done.rng.calls > acc.rng.calls THEN GlowLoop(done, width, hc, lo, hi)
  ELSE done
GlowLoop(acc, width, hc, lo, hi) ==
  IF lo > hi THEN acc
  ELSE IF lo = hi THEN GlowBlob(acc, width, hc)
  ELSE GlowRest(acc, GlowLoop(acc, width, hc, lo, (lo + hi) \div 2),
                width, hc, (lo + hi) \div 2 + 1, hi)

\* variant: the factor is 4
BlobCount_four(u) == 4 + FloorMul(u, 4)

\* the number of glow blobs: 4 + Math.floor(rng() * 3)
BlobCount(u) == 4 + FloorMul(u, 3)

\* lines 557-563: the background gradient fills the canvas
GradientFill(cv, palette, width, hc) ==
  LET gradient ==
        [kind |-> "linear",
         geom |-> <<Whole(0), Whole(0), Whole(width), Frac(hc, 100)>>,
         stops |-> EvenStops(palette.background)]
  IN Paint([cv EXCEPT !.st.fillStyle = gradient], "fillRect",
           <<Whole(0), Whole(0), Whole(width), Frac(hc, 100)>>, <<>>)

\* the body of paintBackground
BackgroundBody(acc, palette, width, hc) ==
  GlowLoop([acc EXCEPT !.cv = GradientFill(acc.cv, palette, width, hc),
                       !.rng = Advance(acc.rng, 1)],
           width, hc, 1, BlobCount(Draw(acc.rng, 1)))

\* function paintBackground(rng, palette, width, height); height is hc / 100
paintBackground(acc0, palette, width, hc) ==
  BackgroundBody(Enter(acc0, "paintBackground"), palette, width, hc)

\* lines 601-637 of renderName for the font picked, the base size and the
\* values u1 (rotation) and u2 (shadow blur) drawn
NameText(acc, trimmed, palette, width, hc, font, baseSize, u1, u2) ==
  LET rotation == Lin(-25, 50, u1, 1000)
      blur == Lin(35, 25, u2, 1)
      textGradient ==
        [kind |-> "linear",
         geom |-> <<Frac(2 * width, 10), Frac(3 * hc, 1000),
                    Frac(8 * width, 10), Frac(7 * hc, 1000)>>,
         stops |-> EvenStops(palette.text)]
      c1 == Save(acc.cv)
      c2 == [c1 EXCEPT !.st.translate = <<Frac(width, 2), Frac(hc, 200)>>,
                       !.st.rotate = rotation,
                       !.st.textAlign = "center",
                       !.st.textBaseline = "middle",
                       !.st.lineJoin = "round",
                       !.st.shadowColor = "rgba(255, 255, 255, 0.45)",
                       !.st.shadowBlur = blur,
                       !.st.shadowOffsetY = 6,
                       !.st.font = [size |-> baseSize, family |-> font.value],
                       !.st.fillStyle = textGradient]
      c3 == Paint(c2, "fillText", <<Whole(0), Whole(0)>>, trimmed)
      c4 == [c3 EXCEPT !.st.shadowBlur = Whole(0),
                       !.st.lineWidth =
                          clampQ(4 * baseSize[1], 100 * baseSize[2], 3, 12),
                       !.st.strokeStyle =
                          SolidStyle(Color("rgba(0, 0, 0, 0.38)"))]
      c5 == Paint(c4, "strokeText", <<Whole(0), Whole(0)>>, trimmed)
      \* clamp(baseSize * 0.015, 1.5, 6) is half of clamp(baseSize * 0.03, 3, 12)
      twice == clampQ(30 * baseSize[1], 1000 * baseSize[2], 3, 12)
      c6 == [c5 EXCEPT !.st.globalCompositeOperation = "screen",
                       !.st.lineWidth = Frac(twice[1], 2 * twice[2]),
                       !.st.strokeStyle =
                          SolidStyle(Color("rgba(255, 255, 255, 0.35)"))]
      off == Frac(-baseSize[1], 100 * baseSize[2])
      c7 == Paint(c6, "strokeText", <<off, off>>, trimmed)
  IN [acc EXCEPT !.cv = Restore(c7), !.rng = Advance(font.rng, 2)]

\* lines 598-599 and 619 of renderName for the font picked: the base size
\* and the two draws
NameFont(acc, trimmed, palette, width, hc, font) ==
  NameText(acc, trimmed, palette, width, hc, font,
           clampQ(10 * width, 7 * Len(trimmed), 92, 210),
           Draw(font.rng, 1), Draw(font.rng, 2))

\* function renderName(name, rng, palette, width, height)
renderName(acc0, name, palette, width, hc) ==
  NameFont(Enter(acc0, "renderName"), Trim(name), palette, width, hc,
           pick(fontFamilies, acc0.rng))

\* the body of one iteration of the loop of sprinkleSparks for the values
\* u1 (x), u2 (y), u3 (size) drawn, the colour picked and u5 (alpha) drawn
SparkDisc(acc, width, hc, u1, u2, u3, color, u5) ==
  LET x == Scaled(width, 0, 1, u1, 1)
      y == Scaled(hc, 0, 1, u2, 100)
      size == Lin(5, 28, u3, 10)
      c1 == [acc.cv EXCEPT !.st.fillStyle = SolidStyle(Color(color.value)),
                           !.st.globalAlpha = Lin(4, 6, u5, 10)]
      c2 == Paint(c1, "fill arc", <<x, y, size>>, <<>>)
  IN [acc EXCEPT !.cv = c2, !.rng = Advance(color.rng, 1)]

\* the iteration for the colour picked after the first three draws
SparkColor(acc, width, hc, color) ==
  SparkDisc(acc, width, hc, Draw(acc.rng, 1), Draw(acc.rng, 2),
            Draw(acc.rng, 3), color, Draw(color.rng, 1))

\* one iteration of the loop of sprinkleSparks: five draws, one disc
Spark(acc, palette, width, hc) ==
  SparkColor(acc, width, hc, pick(palette.sparks, Advance(acc.rng, 3)))

\* iterations lo..hi of for (let i = 0; i < count; i += 1)
RECURSIVE SparkLoop(_, _, _, _, _, _)
\* as GlowRest
SparkRest(acc, done, palette, width, hc, lo, hi) ==
  IF done.rng.calls > acc.rng.calls
  THEN SparkLoop(done, palette, width, hc, lo, hi)
  ELSE done
SparkLoop(acc, palette, width, hc, lo, hi) ==
  IF lo > hi THEN acc
  ELSE IF lo = hi THEN Spark(acc, palette, width, hc)
  ELSE SparkRest(acc, SparkLoop(acc, palette, width, hc, lo, (lo + hi) \div 2),
                 palette, width, hc, (lo + hi) \div 2 + 1, hi)

\* the number of sparks: 64 + Math.floor(rng() * 86)
SparkCount(u) == 64 + FloorMul(u, 86)

\* lines 641-655 of sprinkleSparks
SparkBody(acc, palette, width, hc) ==
  SparkLoop([acc EXCEPT !.cv = [Save(acc.cv) EXCEPT
                                  !.st.globalCompositeOperation = "lighter"],
                        !.rng = Advance(acc.rng, 1)],
            palette, width, hc, 1, SparkCount(Draw(acc.rng, 1)))

\* function sprinkleSparks(rng, palette, width, height)
sprinkleSparks(acc0, palette, width, hc) ==
  RestoreCanvas(SparkBody(Enter(acc0, "sprinkleSparks"), palette, width, hc))

\* lines 661-670 of drawScanlines: one 1-pixel line for every
\* y = 0, 3, 6, ... below height = hc / 100
ScanBody(acc, width, hc) ==
  LET lineHeight == 3
      lines == (hc + 100 * lineHeight - 1) \div (100 * lineHeight)
      c1 == Save(acc.cv)
      c2 == [c1 EXCEPT !.st.globalCompositeOperation = "soft-light",
                       !.st.fillStyle =
                          SolidStyle(Color("rgba(255, 255, 255, 0.04)"))]
      \* for (let y = 0; y < height; y += lineHeight) fillRect(0, y, width, 1),
      \* every line painted under the drawing state c2.st
      sts == IF lines = 0 THEN c2.sts ELSE Paint(c2, "fillRect", <<>>, <<>>).sts
      c3 == [c2 EXCEPT !.sts = sts,
                       !.cmds = @ \o
               [i \in 1..lines |->
                  [op |-> "fillRect",
                   args |-> <<Whole(0), Whole(lineHeight * (i - 1)),
                              Whole(width), Whole(1)>>,
                   text |-> <<>>, st |-> Len(sts)]]]
  IN [acc EXCEPT !.cv = Restore(c3)]

\* function drawScanlines(width, height)
drawScanlines(acc0, width, hc) ==
  ScanBody(Enter(acc0, "drawScanlines"), width, hc)

(***************************************************************************)
(* The orchestrator.                                                       *)
(***************************************************************************)
\* the values window.devicePixelRatio can have; 0 stands for a falsy value
Ratios == {0, 2}

\* the seed argument of a call forgeNameArt(name) that passes no seed
NoArg == -1
\* the value of resizeTimeout before the first setTimeout
NoTimer == 0

\* variant: the name is rendered before the background is painted
PaintLayers_nameFirst(acc, name, palette, baseWidth, hc) ==
  drawScanlines(
    sprinkleSparks(
      paintBackground(
        renderName(acc, name, palette, baseWidth, hc),
        palette, baseWidth, hc),
      palette, baseWidth, hc),
    baseWidth, hc)

\* the four layer calls of forgeNameArt, lines 689-692: paintBackground,
\* renderName, sprinkleSparks, drawScanlines
PaintLayers(acc, name, palette, baseWidth, hc) ==
  drawScanlines(
    sprinkleSparks(
      renderName(
        paintBackground(acc, palette, baseWidth, hc),
        name, palette, baseWidth, hc),
      palette, baseWidth, hc),
    baseWidth, hc)

\* variant: the name is not normalized
NormalizeName_none(name) == name

\* variant: the test is name === '' instead of !name.trim()
NormalizeName_emptyOnly(name) == IF name = <<>> THEN FallbackName ELSE name

\* if (!name.trim()) name = 'Nameless Wonder'
NormalizeName(name) == IF Trim(name) = <<>> THEN FallbackName ELSE name

\* lines 684-687 of forgeNameArt for the palette picked and the base width:
\* the base height baseHeight = hc / 100 and the sized canvas
Layout(cv, dpr, name, palette, baseWidth, hc) ==
  [acc |-> [cv |-> fitCanvas(cv, dpr, baseWidth, hc), rng |-> palette.rng,
            calls |-> <<"fitCanvas">>, marks |-> <<palette.rng.calls>>],
   name |-> name, palette |-> palette.value, baseWidth |-> baseWidth,
   hc |-> hc]

\* baseHeight * 100 = clamp(baseWidth * 0.48, 320, 520) * 100
BaseHeight(baseWidth) == clamp(baseWidth * 48, 320 * 100, 520 * 100)

\* baseWidth = clamp(name.length * 120, 720, 1180)
BaseWidth(name) == clamp(Len(name) * 120, 720, 1180)

\* lines 681-687 of forgeNameArt for the (already normalized) name: the RNG,
\* the palette, the layout and the sized canvas, as handed to the layers
Prepare(cv, dpr, name, seed) ==
  Layout(cv, dpr, name, pick(palettes, NewRng(seed)), BaseWidth(name),
         BaseHeight(BaseWidth(name)))

\* the names forgeNameArt can hold after normalization
Names == {NormalizeName(v) : v \in InputValues} \cup {DefaultName}

\* what a forge on a freshly sized canvas hands to the layers
PaintKeys ==
  {Prepare(BlankCanvas, r, n, s) : r \in Ratios, n \in Names, s \in Seeds}

\* PaintLayers is a pure operator of its arguments; its value is computed
\* once for the arguments a forge on a freshly sized canvas passes and looked
\* up afterwards, and computed in place for any other arguments
PaintMemo ==
  [p \in PaintKeys |-> PaintLayers(p.acc, p.name, p.palette, p.baseWidth, p.hc)]

Painted(p) ==
  IF p \in PaintKeys THEN PaintMemo[p]
  ELSE PaintLayers(p.acc, p.name, p.palette, p.baseWidth, p.hc)

\* what a call of forgeNameArt leaves, for the layout p it prepared and the
\* accumulator the layers returned
Outcome(p, painted, seed, dpr) ==
  [lastName |-> p.name, lastSeed |-> seed, cv |-> painted.cv,
   calls |-> painted.calls, marks |-> painted.marks,
   draws |-> painted.rng.calls,
   palette |-> p.palette.name, dpr |-> dpr]

\* lines 678-692 of forgeNameArt for the layout p prepared
Forged(p, seed, dpr) == Outcome(p, Painted(p), seed, dpr)

\* function forgeNameArt(name, seed) on the canvas cv with
\* window.devicePixelRatio = dpr: the new lastName and lastSeed, the canvas,
\* and what the call did
forgeNameArt(cv, dpr, name0, seed) ==
  Forged(Prepare(cv, dpr, NormalizeName(name0), seed), seed, dpr)

\* the file name handleDownload offers for the stored name
DownloadName(name) ==
  LET safeName == CollapseHyphens(ReplaceNonAlnumRuns(Trim(name)))
  IN (IF safeName = <<>> THEN DefaultBase ELSE safeName) \o PngSuffix

(***************************************************************************)
(* The stats dashboard (backend/app/web/static/app.js).                    *)
(*   dash.value    : the value of each filter control                      *)
(*   dash.options  : the options of the season, week, team and sort        *)
(*                   selects, next to the empty default option             *)
(*   dash.tasks    : the fetches awaited, in the order they were started;  *)
(*                   each names the handler that awaits it (by) and, for   *)
(*                   GET /api/stats, the number of the query (seq)         *)
(*   dash.table    : what #stats-table shows                               *)
(*   dash.refreshing    : refreshButton.disabled                           *)
(*   dash.refreshStatus : the text of #status-message                      *)
(*   dash.answered : the number of the stats query whose answer was        *)
(*                   handled last (0: none yet)                            *)
(***************************************************************************)
\* at most MaxTasks fetches are awaited at a time; the user changes controls
\* at most MaxEdits times; at most MaxQueries stats queries are issued: a
\* handler starts only while the queries issued and those still to follow
\* the fetches awaited (Pending) leave room for its own
MaxTasks == 2
MaxEdits == 2
MaxQueries == 3

\* const datasetOptions, the values
datasetOptions ==
  <<"player", "team", "receiving_efficiency", "quarterback_efficiency">>

\* lines 15-21: datasetSelect, seasonSelect, weekSelect, teamSelect,
\* playerInput, limitInput, sortSelect
Controls == {"dataset", "season", "week", "team", "player", "limit", "sort"}
Populated == {"season", "week", "team"}

\* the empty value of a control; the text of the player input is a sequence
\* of characters
Empty(c) == IF c = "player" THEN <<>> ELSE ""
\* the texts typed into the player and limit inputs
PlayerTexts == {<<>>, <<" ", "k", "c">>}
LimitTexts == {"", "5"}

\* the answers of GET /api/stats/metadata: seasons, weeks, teams
MetaPayloads ==
  { [season |-> <<"2023">>, week |-> <<"1">>, team |-> <<"KC">>],
    [season |-> <<"2023">>, week |-> <<>>, team |-> <<>>] }
\* the answers of GET /api/stats: rows or none, the columns, filters.sort
StatsPayloads ==
  { [rows |-> TRUE, columns |-> <<"yards">>, sort |-> "yards"],
    [rows |-> TRUE, columns |-> <<"yards">>, sort |-> ""],
    [rows |-> FALSE, columns |-> <<>>, sort |-> ""] }

NoTable == [shown |-> FALSE, params |-> <<>>]
NoDash ==
  [booted |-> FALSE,
   value |-> [c \in Controls |-> Empty(c)],
   options |-> [c \in Populated \cup {"sort"} |-> <<>>],
   disabled |-> [c \in Populated |-> FALSE],
   tasks |-> <<>>,
   status |-> "",
   hidden |-> TRUE,
   table |-> NoTable,
   refreshing |-> FALSE,
   refreshStatus |-> "",
   queries |-> 0,
   answered |-> 0,
   edits |-> 0]

\* the handlers that await fetches: bootstrap(), the change listener of
\* datasetSelect, the submit listener of filtersForm, the click listener of
\* refreshButton
Handlers == {"bootstrap", "change", "submit", "refresh"}

\* the fetches awaited that a call of runStatsQuery follows
Pending(d) ==
  Cardinality({i \in DOMAIN d.tasks : d.tasks[i].kind # "stats"})

\* populateSelect: the options are replaced; the value is kept when it is
\* not empty and among the new options, and is the default option's
\* otherwise
Preserved(old, values) ==
  IF old # "" /\ old \in {values[i] : i \in DOMAIN values} THEN old ELSE ""

\* updateSortOptions(columns, preferred)
SortTarget(previous, preferred) ==
  IF preferred # "" THEN preferred ELSE previous

\* new URLSearchParams({ dataset }) and the params.set calls of lines
\* 179-184: a control with an empty value sets no parameter; the player text
\* is trimmed
QueryParams(value) ==
  [c \in {"dataset"} \cup {k \in Controls : value[k] # Empty(k)} |->
     IF c = "player" THEN Trim(value[c]) ELSE value[c]]

\* refreshMetadata(dataset) up to its await, called by the handler by: the
\* status and the fetch
StartMetadata(d, by) ==
  [d EXCEPT !.status = "Loading metadata...",
            !.tasks = Append(@, [kind |-> "meta", params |-> <<>>,
                                 by |-> by, seq |-> 0])]

\* runStatsQuery() up to its await, lines 174-190: nothing without a
\* dataset; else the parameters are read off the controls, the section is
\* hidden and the fetch starts
runStatsQuery(d, by) ==
  IF d.value["dataset"] = "" THEN d
  ELSE [d EXCEPT !.status = "Loading stats...",
                 !.hidden = TRUE,
                 !.queries = @ + 1,
                 !.tasks = Append(@, [kind |-> "stats",
                                      params |-> QueryParams(d.value),
                                      by |-> by, seq |-> d.queries + 1])]

\* lines 153-166 of refreshMetadata for the answer meta, or its catch
MetadataLoaded(d, meta) ==
  [d EXCEPT !.options = [c \in DOMAIN @ |->
                           IF c \in Populated THEN meta[c] ELSE @[c]],
            !.value = [c \in DOMAIN @ |->
                         IF c \in Populated THEN Preserved(@[c], meta[c])
                         ELSE @[c]],
            !.disabled = [c \in DOMAIN @ |-> meta[c] = <<>>],
            !.status = "Ready"]
MetadataFailed(d) == [d EXCEPT !.status = "Metadata unavailable"]

\* lines 194-216 of runStatsQuery for the answer payload to the query with
\* parameters params, and its catch
StatsLoaded(d, params, payload) ==
  IF ~payload.rows
  THEN [d EXCEPT !.status = "No data for that filter set",
                 !.table = NoTable]
  ELSE [d EXCEPT !.table = [shown |-> TRUE, params |-> params],
                 !.options["sort"] = payload.columns,
                 !.value["sort"] =
                    Preserved(SortTarget(d.value["sort"], payload.sort),
                              payload.columns),
                 !.hidden = FALSE,
                 !.status = "Ready"]
StatsFailed(d) == [d EXCEPT !.status = "Stats lookup failed"]

\* the i-th fetch awaited is answered: the fetches are independent requests
\* and their answers arrive in any order
Settled(d, i) ==
  [d EXCEPT !.tasks = SubSeq(@, 1, i - 1) \o SubSeq(@, i + 1, Len(@))]

\* the finally block of the click listener of refreshButton, lines 287-289
Finally_none(d) == d
Finally(d) == [d EXCEPT !.refreshing = FALSE]

\* the handler by returns from its last await: the click listener of
\* refreshButton runs its finally block, bootstrap() its lines 299-300
Returned(d, by) ==
  IF by = "refresh" THEN Finally(d)
  ELSE IF by = "bootstrap" THEN [d EXCEPT !.refreshStatus = "Ready"]
  ELSE d

\* await runStatsQuery() as the last statement of the handler by: the
\* handler returns at once when runStatsQuery does
AwaitStats(d, by) ==
  IF d.value["dataset"] = "" THEN Returned(d, by) ELSE runStatsQuery(d, by)

VARIABLES
  loaded,            \* the script has run: listeners registered, first forge done
  lastName,          \* let lastName
  lastSeed,          \* let lastSeed
  canvas,            \* #art-canvas and its 2d context
  devicePixelRatio,  \* window.devicePixelRatio
  resizeTimeout,     \* let resizeTimeout: the id of the last timer armed
  timers,            \* ids of the timeouts armed and neither fired nor cleared
  download,          \* link.download offered by the last step, <<>> if none
  lastForge,         \* history: the last forgeNameArt call and what it did
  burst,             \* history: the resize events of the current burst
  memo,              \* history: one earlier render, kept for comparison
  gen,               \* a closure returned by rngFromSeed, called on its own
  dash               \* the stats dashboard of backend/app/web/static/app.js

vars == <<loaded, lastName, lastSeed, canvas, devicePixelRatio, resizeTimeout,
          timers, download, lastForge, burst, memo, gen, dash>>

\* the variables of the page, and the variables outside the page
pageVars == <<loaded, lastName, lastSeed, canvas, devicePixelRatio,
              resizeTimeout, timers, download, lastForge, burst>>
apart == <<gen, dash>>

TimerIds == 1..MaxTimerId

NoForge ==
  [by |-> "none", arg |-> <<>>, seed |-> 0, fresh |-> FALSE, stored |-> <<>>,
   calls |-> <<>>, marks |-> <<>>, draws |-> 0, palette |-> "", dpr |-> 0]
NoBurst == [events |-> 0, name |-> <<>>, seed |-> 0, renders |-> 0]
\* no closure yet
NoGen ==
  [made |-> FALSE, from |-> "", seed |-> 0, t |-> [hi |-> 0, lo |-> 0],
   calls |-> 0, u |-> 0, layers |-> 0, count |-> 0, picked |-> <<>>]
NoMemo ==
  [set |-> FALSE,
   key |-> [name |-> <<>>, seed |-> 0, width |-> 0, height |-> 0, dpr |-> 0],
   arg |-> <<>>, out |-> BlankCanvas]

Init ==
  /\ loaded = FALSE
  /\ lastName = <<>>
  /\ lastSeed = 0
  /\ canvas = BlankCanvas
  /\ devicePixelRatio \in Ratios
  /\ resizeTimeout = NoTimer
  /\ timers = {}
  /\ download = <<>>
  /\ lastForge = NoForge
  /\ burst = NoBurst
  /\ memo = NoMemo
  /\ gen = NoGen
  /\ dash = NoDash

\* a call forgeNameArt(name, seed) made by the handler `by'; a missing seed
\* is drawn by the default parameter seed = Math.random(); fresh tells
\* whether the seed of the call was drawn from Math.random(), by the handler
\* or by the default parameter
Forge(by, name, seed, fresh) ==
  \E s \in (IF seed = NoArg THEN Seeds ELSE {seed}) :
    \E f \in {forgeNameArt(canvas, devicePixelRatio, name, s)} :
       /\ lastName' = f.lastName
       /\ lastSeed' = f.lastSeed
       /\ canvas' = f.cv
       /\ lastForge' = [by |-> by, arg |-> name, seed |-> s,
                        fresh |-> (fresh \/ seed = NoArg),
                        stored |-> f.lastName,
                        calls |-> f.calls, marks |-> f.marks,
                        draws |-> f.draws,
                        palette |-> f.palette, dpr |-> f.dpr]

\* variant: the script ends without the initial forge; lastName and lastSeed
\* hold their initial values
StartupForge_none(s) ==
  /\ lastName' = DefaultName
  /\ lastSeed' = s
  /\ UNCHANGED <<canvas, lastForge>>

\* line 730: forgeNameArt(lastName, lastSeed), lastName being 'Ada Lovelace'
\* and lastSeed the value s that Math.random() returned
StartupForge(s) == Forge("load", DefaultName, s, TRUE)

\* the script runs with lastSeed = Math.random() = s: lastName is
\* 'Ada Lovelace', the listeners are registered and
\* forgeNameArt(lastName, lastSeed) paints.  The script runs to its end
\* before any handler is called.
LoadWith(s) ==
  /\ ~loaded
  /\ loaded' = TRUE
  /\ StartupForge(s)
  /\ download' = <<>>
  /\ UNCHANGED <<devicePixelRatio, resizeTimeout, timers, burst>>

\* variant: the handler cancels the pending re-render
SlotUntouched_cancel ==
  /\ timers' = timers \ {resizeTimeout}
  /\ UNCHANGED resizeTimeout

\* handleForge, handleShuffle and handleDownload name neither resizeTimeout
\* nor setTimeout or clearTimeout
SlotUntouched == UNCHANGED <<resizeTimeout, timers>>

\* function handleForge(event): the form is submitted with value typed and
\* Math.random() returns s
SubmitWith(value, s) ==
  /\ loaded
  /\ Forge("submit", value, s, TRUE)
  /\ download' = <<>>
  /\ burst' = NoBurst
  /\ SlotUntouched
  /\ UNCHANGED <<loaded, devicePixelRatio>>

\* variant: shuffle forges the initial name
ShuffleName_default == DefaultName

\* the name handleShuffle passes to forgeNameArt
ShuffleName == lastName

\* function handleShuffle(), Math.random() returning s
ShuffleWith(s) ==
  /\ loaded
  /\ Forge("shuffle", ShuffleName, s, TRUE)
  /\ download' = <<>>
  /\ burst' = NoBurst
  /\ SlotUntouched
  /\ UNCHANGED <<loaded, devicePixelRatio>>

\* function handleDownload()
Download ==
  /\ loaded
  /\ download' = DownloadName(lastName)
  /\ SlotUntouched
  /\ UNCHANGED <<loaded, lastName, lastSeed, canvas, devicePixelRatio,
                 lastForge, burst>>

\* variant: the pending timer is not cleared
clearTimeout_noop(ts, id) == ts

\* clearTimeout(id): the timer with that id, if still armed, is removed
clearTimeout(ts, id) == ts \ {id}

\* function handleResize().  setTimeout returns an id that no armed timer
\* has.
Resize ==
  /\ loaded
  /\ LET cleared == clearTimeout(timers, resizeTimeout)
     IN \E id \in TimerIds \ cleared :
          /\ timers' = cleared \cup {id}
          /\ resizeTimeout' = id
  /\ download' = <<>>
  /\ burst' = IF timers = {} \/ burst.events = 0
              THEN [events |-> 1, name |-> lastName, seed |-> lastSeed,
                    renders |-> 0]
              ELSE [burst EXCEPT !.events = Min(@ + 1, MaxBurst)]
  /\ UNCHANGED <<loaded, lastName, lastSeed, canvas, devicePixelRatio,
                 lastForge>>

\* variants: the callback passes no seed (the default parameter draws
\* one), the initial name, or the emptied input field
ResizeCallbackArgs_redraw == [name |-> lastName, seed |-> NoArg]
ResizeCallbackArgs_default == [name |-> DefaultName, seed |-> lastSeed]
ResizeCallbackArgs_input == [name |-> <<>>, seed |-> lastSeed]

\* the arguments of the call in the timeout callback, line 718
ResizeCallbackArgs == [name |-> lastName, seed |-> lastSeed]

\* an armed timeout fires: () => { forgeNameArt(lastName, lastSeed); }
Fire ==
  /\ \E id \in timers : timers' = timers \ {id}
  /\ Forge("timer", ResizeCallbackArgs.name, ResizeCallbackArgs.seed, FALSE)
  /\ download' = <<>>
  /\ burst' = IF burst.events = 0 THEN burst
              ELSE [burst EXCEPT !.renders = Min(@ + 1, 2)]
  /\ UNCHANGED <<loaded, devicePixelRatio, resizeTimeout>>

\* the environment: zooming or moving the window to another screen changes
\* window.devicePixelRatio
PixelRatio ==
  /\ devicePixelRatio' \in Ratios \ {devicePixelRatio}
  /\ download' = <<>>
  /\ UNCHANGED <<loaded, lastName, lastSeed, canvas, resizeTimeout, timers,
                 lastForge, burst>>

LoadScript == (\E s \in Seeds : LoadWith(s)) /\ UNCHANGED <<memo, apart>>
handleForge ==
  (\E value \in InputValues : \E s \in Seeds : SubmitWith(value, s))
  /\ UNCHANGED <<memo, apart>>
handleShuffle == (\E s \in Seeds : ShuffleWith(s)) /\ UNCHANGED <<memo, apart>>
handleDownload == Download /\ UNCHANGED <<memo, apart>>
handleResize == Resize /\ UNCHANGED <<memo, apart>>
TimerFire == Fire /\ UNCHANGED <<memo, apart>>
PixelRatioChange == PixelRatio /\ UNCHANGED <<memo, apart>>

Next ==
  \/ LoadScript
  \/ handleForge
  \/ handleShuffle
  \/ handleDownload
  \/ handleResize
  \/ TimerFire
  \/ PixelRatioChange

Spec == Init /\ [][Next]_vars

\* timers are run by the event loop: an armed timeout that is not cleared
\* fires
FairSpec == Spec /\ WF_vars(TimerFire)

(***************************************************************************)
(* Renders compared: the same steps, with one earlier render remembered.   *)
(***************************************************************************)
\* the Render State of the render on the canvas
RenderState ==
  [name |-> lastName, seed |-> lastSeed, width |-> canvas.styleWidth,
   height |-> canvas.styleHeight, dpr |-> lastForge.dpr]

\* after a render, the remembered render is kept or replaced by this one
Remember ==
  \/ memo' = memo
  \/ memo' = [set |-> TRUE, key |-> RenderState', arg |-> lastForge'.arg,
              out |-> canvas']

RenderLoad == (\E s \in Seeds : LoadWith(s)) /\ Remember /\ UNCHANGED apart
RenderSubmit ==
  /\ \E value \in InputValues : \E s \in Seeds : SubmitWith(value, s)
  /\ Remember
  /\ UNCHANGED apart
RenderShuffle ==
  (\E s \in Seeds : ShuffleWith(s)) /\ Remember /\ UNCHANGED apart

RenderNext ==
  \/ RenderLoad
  \/ RenderSubmit
  \/ RenderShuffle
  \/ PixelRatioChange

RenderSpec == Init /\ [][RenderNext]_vars

(***************************************************************************)
(* The generator on its own: closures built from seeds and called, next to *)
(* the renders of the page.                                                *)
(***************************************************************************)
\* a closure is called at most MaxCalls times
MaxCalls == 12

\* the seeds handed to rngFromSeed, in hundredths: seeds in [0, 1) as
\* Math.random() returns them, and numbers from 1 on
UnitSeeds == {0, 1, 25, 42, 50, 75, 99}
OtherSeeds == {100, 150, 200, 250}
RngSeeds == UnitSeeds \cup OtherSeeds

\* States of the stream far from its start.  The three shifts of the body
\* are those of a xorshift generator of period 2^32 - 1: every nonzero 32-bit
\* state occurs in the stream of every seed.  These are the states from which
\* the next call leaves -2^31, 2147483647, -2147483647, 2147483646,
\* -2147483646, 1 and -1.
StreamStates ==
  { [hi |-> 34816, lo |-> 16384], [hi |-> 54892, lo |-> 48359],
    [hi |-> 31413, lo |-> 50473], [hi |-> 9433, lo |-> 14798],
    [hi |-> 28011, lo |-> 19026], [hi |-> 62133, lo |-> 34089],
    [hi |-> 24172, lo |-> 64743] }

\* what pick returns for each table of the page when its call of rng
\* returns u / RngModulus
PaletteNameOf(p) == IF p.found THEN p.value.name ELSE Undefined
Picks(u, rng) ==
  [palette |-> PaletteNameOf(pickWith(palettes, u, rng)),
   font |-> pickWith(fontFamilies, u, rng).value,
   sparks |-> [i \in DOMAIN palettes |->
                 pickWith(palettes[i].sparks, u, rng).value],
   index |-> [n \in {Len(palettes), Len(fontFamilies)} \cup
                    {Len(palettes[i].sparks) : i \in DOMAIN palettes} |->
                SelectorIndex(u, n)]]

\* const rng = rngFromSeed(seed)
MakeRng(s) ==
  /\ ~gen.made
  /\ gen' = [NoGen EXCEPT !.made = TRUE, !.from = "seed", !.seed = s,
                          !.t = rngFromSeed(s)]

\* a closure met later in its stream, its state being p
MidStream(p) ==
  /\ ~gen.made
  /\ gen' = [NoGen EXCEPT !.made = TRUE, !.from = "stream", !.t = p]

\* one call rng() that leaves the state t1 and returns u / RngModulus, and
\* what the callers of the page compute from the value: the blob count, the
\* spark count, the picks
Drawn(g, t1, u) ==
  [g EXCEPT !.t = t1, !.u = u, !.calls = @ + 1,
            !.layers = BlobCount(u), !.count = SparkCount(u),
            !.picked = Picks(u, [seed |-> g.seed, calls |-> g.calls])]
Called(g, t1) == Drawn(g, t1, DrawValue(t1))
CallRng ==
  /\ gen.made
  /\ gen.calls < MaxCalls
  /\ gen' = Called(gen, XorShift(gen.t))

SeedRng ==
  (\E s \in RngSeeds : MakeRng(s)) /\ UNCHANGED <<pageVars, memo, dash>>
ResumeRng ==
  (\E p \in StreamStates : MidStream(p)) /\ UNCHANGED <<pageVars, memo, dash>>
DrawRng == CallRng /\ UNCHANGED <<pageVars, memo, dash>>

RngNext ==
  \/ SeedRng
  \/ ResumeRng
  \/ DrawRng
  \/ LoadScript
  \/ handleShuffle

RngSpec == Init /\ [][RngNext]_vars

(***************************************************************************)
(* The stats dashboard: its listeners and the answers to its fetches.      *)
(***************************************************************************)
\* bootstrap(): the dataset options, the first of them selected, then
\* refreshMetadata and runStatsQuery
Bootstrap ==
  /\ ~dash.booted
  /\ dash' = StartMetadata([dash EXCEPT !.booted = TRUE,
                                         !.value["dataset"] = datasetOptions[1]],
                           "bootstrap")

\* the values the user can give the control c
Choices(c) ==
  IF c = "dataset" THEN {datasetOptions[i] : i \in DOMAIN datasetOptions}
  ELSE IF c = "player" THEN PlayerTexts
  ELSE IF c = "limit" THEN LimitTexts
  ELSE IF c \in Populated /\ dash.disabled[c] THEN {}
  ELSE {""} \cup {dash.options[c][i] : i \in DOMAIN dash.options[c]}

\* the user gives the control c the value v
Edited(d, c, v) == [d EXCEPT !.value[c] = v, !.edits = @ + 1]

\* the change listener of datasetSelect, lines 228-231: refreshMetadata,
\* then runStatsQuery
ChangeDataset(v) ==
  /\ dash.booted
  /\ dash.edits < MaxEdits
  /\ Len(dash.tasks) < MaxTasks
  /\ dash.queries + Pending(dash) < MaxQueries
  /\ v # dash.value["dataset"]
  /\ dash' = StartMetadata(Edited(dash, "dataset", v), "change")

\* the user changes another filter control: no listener is registered for
\* it
ChangeFilter(c, v) ==
  /\ dash.booted
  /\ dash.edits < MaxEdits
  /\ v # dash.value[c]
  /\ dash' = Edited(dash, c, v)

\* the submit listener of filtersForm, lines 223-226
SubmitFilters ==
  /\ dash.booted
  /\ Len(dash.tasks) < MaxTasks
  /\ dash.queries + Pending(dash) < MaxQueries
  /\ dash' = runStatsQuery(dash, "submit")

\* the click listener of refreshButton, lines 263-290, up to its await; a
\* disabled button dispatches no click
RefreshClick ==
  /\ dash.booted
  /\ ~dash.refreshing
  /\ Len(dash.tasks) < MaxTasks
  /\ dash.queries + Pending(dash) < MaxQueries
  /\ dash' = [dash EXCEPT !.refreshing = TRUE,
                          !.refreshStatus = "Refreshing props and stats...",
                          !.tasks = Append(@, [kind |-> "update",
                                               params |-> <<>>,
                                               by |-> "refresh", seq |-> 0])]

\* POST /api/update-data, the i-th fetch awaited, is answered: lines 277-282
\* up to the await in refreshMetadata, or the catch and the finally block
UpdateAnswered(i, ok) ==
  /\ dash.tasks[i].kind = "update"
  /\ dash' = IF ok
             THEN StartMetadata([Settled(dash, i) EXCEPT
                                   !.refreshStatus = "Refresh complete"],
                                dash.tasks[i].by)
             ELSE Finally([Settled(dash, i) EXCEPT
                             !.refreshStatus = "Refresh failed"])

\* GET /api/stats/metadata, the i-th fetch awaited, is answered, by meta or
\* by a failure; every caller of refreshMetadata then awaits runStatsQuery
MetadataAnswered(i, ok, meta) ==
  /\ dash.tasks[i].kind = "meta"
  /\ dash' = AwaitStats(IF ok THEN MetadataLoaded(Settled(dash, i), meta)
                        ELSE MetadataFailed(Settled(dash, i)),
                        dash.tasks[i].by)

\* GET /api/stats, the i-th fetch awaited, is answered, by payload or by a
\* failure; the handler that awaited runStatsQuery returns
StatsAnswered(i, ok, payload) ==
  /\ dash.tasks[i].kind = "stats"
  /\ dash' = Returned([(IF ok
                        THEN StatsLoaded(Settled(dash, i),
                                         dash.tasks[i].params, payload)
                        ELSE StatsFailed(Settled(dash, i)))
                         EXCEPT !.answered = dash.tasks[i].seq],
                      dash.tasks[i].by)

\* the i-th fetch awaited is answered
Answered(i) ==
  \/ \E ok \in BOOLEAN : UpdateAnswered(i, ok)
  \/ \E ok \in BOOLEAN : \E meta \in MetaPayloads : MetadataAnswered(i, ok, meta)
  \/ \E ok \in BOOLEAN : \E payload \in StatsPayloads :
       StatsAnswered(i, ok, payload)

DashBootstrap == Bootstrap /\ UNCHANGED <<pageVars, memo, gen>>
DashChangeDataset ==
  (\E v \in Choices("dataset") : ChangeDataset(v))
  /\ UNCHANGED <<pageVars, memo, gen>>
DashChangeFilter ==
  (\E c \in Controls \ {"dataset"} : \E v \in Choices(c) : ChangeFilter(c, v))
  /\ UNCHANGED <<pageVars, memo, gen>>
DashSubmit == SubmitFilters /\ UNCHANGED <<pageVars, memo, gen>>
DashRefresh == RefreshClick /\ UNCHANGED <<pageVars, memo, gen>>
DashUpdateAnswered ==
  (\E i \in DOMAIN dash.tasks : \E ok \in BOOLEAN : UpdateAnswered(i, ok))
  /\ UNCHANGED <<pageVars, memo, gen>>
DashMetadataAnswered ==
  (\E i \in DOMAIN dash.tasks : \E ok \in BOOLEAN : \E meta \in MetaPayloads :
     MetadataAnswered(i, ok, meta))
  /\ UNCHANGED <<pageVars, memo, gen>>
DashStatsAnswered ==
  (\E i \in DOMAIN dash.tasks : \E ok \in BOOLEAN : \E payload \in StatsPayloads :
     StatsAnswered(i, ok, payload))
  /\ UNCHANGED <<pageVars, memo, gen>>

\* the fetch that the click listener of refreshButton awaits is answered
RefreshAnswered ==
  (\E i \in DOMAIN dash.tasks : dash.tasks[i].by = "refresh" /\ Answered(i))
  /\ UNCHANGED <<pageVars, memo, gen>>

DashNext ==
  \/ DashBootstrap
  \/ DashChangeDataset
  \/ DashChangeFilter
  \/ DashSubmit
  \/ DashRefresh
  \/ DashUpdateAnswered
  \/ DashMetadataAnswered
  \/ DashStatsAnswered

DashSpec == Init /\ [][DashNext]_vars

\* every request the click listener of refreshButton awaits settles
FairDashSpec == DashSpec /\ WF_vars(RefreshAnswered)

(***************************************************************************)
(* Properties.                                                             *)
(***************************************************************************)
LayerOrder ==
  <<"fitCanvas", "paintBackground", "renderName", "sprinkleSparks",
    "drawScanlines">>

\* the strings painted on the canvas by fillText and strokeText
PaintedTexts(cv) ==
  {cv.cmds[i].text :
     i \in {j \in DOMAIN cv.cmds : cv.cmds[j].op \in {"fillText", "strokeText"}}}

\* C1 Resize stability: a re-render run by the debounce timer calls
\* forgeNameArt with exactly the name and the seed that the most recent
\* earlier forge stored, and draws no seed.
ResizeStability ==
  [][Fire => /\ lastForge'.by = "timer"
             /\ lastForge'.arg = lastForge.stored
             /\ lastForge'.seed = lastForge.seed
             /\ ~lastForge'.fresh]_vars

\* a timer re-render has run after a shuffle-or-submit of another name
ResizeStabilityWitness ==
  /\ lastForge.by = "timer"
  /\ lastForge.arg = <<"N","o","v","a">>
  /\ lastForge.seed = lastSeed

\* C2 Trailing debounce: a burst of consecutive resize events gets at most
\* one re-render; when it has run no timer is left pending and it used the
\* name and seed stored before the first event of the burst; and a burst
\* that is not cut short by a forge or shuffle does get its re-render.
TrailingDebounceState ==
  /\ burst.renders <= 1
  /\ burst.renders = 1 =>
       /\ timers = {}
       /\ lastForge.by = "timer"
       /\ lastForge.arg = burst.name
       /\ lastForge.seed = burst.seed
       /\ lastName = burst.name
       /\ lastSeed = burst.seed

TrailingDebounce ==
  /\ []TrailingDebounceState
  /\ (burst.events >= 1 /\ burst.renders = 0)
       ~> (burst.renders = 1 \/ burst.events = 0)

\* three resize events in one burst, then the one re-render
TrailingDebounceWitness == burst.events = 3 /\ burst.renders = 1

\* C3 At most one debounced re-render is pending.
SinglePending == Cardinality(timers) <= 1

\* a resize event arrived while a re-render was pending; one is pending now
SinglePendingWitness == Cardinality(timers) = 1 /\ burst.events >= 2

\* C4 Determinism: a render with the Render State (name, seed, surface
\* width and height, device pixel scale) of a remembered earlier render
\* leaves the canvas (buffer size, drawing state and painted commands with
\* their parameters) exactly as the earlier render left it.
Determinism ==
  (memo.set /\ memo.key = RenderState) => memo.out = canvas

\* two renders with the same Render State: the remembered one forged the
\* empty name, the present one a name of three spaces
DeterminismWitness ==
  /\ memo.set
  /\ memo.key = RenderState
  /\ memo.arg = <<>>
  /\ lastForge.arg = <<" ", " ", " ">>

\* C5 Fixed compositing order: every forge sizes the canvas once, first,
\* and then paints background, name, sparks and scanlines, once each.
CompositingOrder == loaded => lastForge.calls = LayerOrder

\* a forge run by the resize timer has painted
CompositingOrderWitness ==
  lastForge.by = "timer" /\ Len(lastForge.calls) = 5 /\ canvas.cmds # <<>>

\* C6 Fallback substitution: after a forge called with an empty or
\* all-whitespace name the stored name is the fallback name, the stored seed
\* is the seed of the call, and the fallback name is what was laid out and
\* painted.
FallbackSubstitution ==
  (loaded /\ Trim(lastForge.arg) = <<>>) =>
     /\ lastName = FallbackName
     /\ lastForge.stored = FallbackName
     /\ lastSeed = lastForge.seed
     /\ PaintedTexts(canvas) = {FallbackName}
     /\ canvas.styleWidth = clamp(Len(FallbackName) * 120, 720, 1180)

\* the form was submitted with three spaces
FallbackSubstitutionWitness ==
  /\ lastForge.by = "submit"
  /\ lastForge.arg = <<" ", " ", " ">>
  /\ lastName = FallbackName

AlphaUpper ==
  <<"A","B","C","D","E","F","G","H","I","J","K","L","M",
    "N","O","P","Q","R","S","T","U","V","W","X","Y","Z">>
AlphaLower ==
  <<"a","b","c","d","e","f","g","h","i","j","k","l","m",
    "n","o","p","q","r","s","t","u","v","w","x","y","z">>
LowerCase(s) ==
  [i \in 1..Len(s) |->
     IF s[i] \in UpperLetters
     THEN AlphaLower[CHOOSE k \in 1..26 : AlphaUpper[k] = s[i]]
     ELSE s[i]]

RECURSIVE StripLeadingHyphens(_)
StripLeadingHyphens(s) ==
  IF s # <<>> /\ Head(s) = "-" THEN StripLeadingHyphens(Tail(s)) ELSE s
RECURSIVE StripTrailingHyphens(_)
StripTrailingHyphens(s) ==
  IF s # <<>> /\ s[Len(s)] = "-"
  THEN StripTrailingHyphens(SubSeq(s, 1, Len(s) - 1)) ELSE s

\* the base name as described: lower-cased, every run of non-alphanumeric
\* characters one hyphen, no leading or trailing hyphen
SanitizedBase(name) ==
  StripTrailingHyphens(StripLeadingHyphens(
    ReplaceNonAlnumRuns(LowerCase(name))))

\* C7 File-name sanitization: the file name offered by a download is the
\* lower-cased last name with every run of non-alphanumeric characters
\* replaced by one hyphen and leading and trailing hyphens trimmed,
\* followed by .png.
FileNameSanitization ==
  (download # <<>> /\ SanitizedBase(lastName) # <<>>) =>
     download = SanitizedBase(lastName) \o PngSuffix

\* C8 Export default name: when the sanitized last name is empty, the
\* download is offered under the default base name.
ExportDefaultName ==
  (download # <<>> /\ SanitizedBase(lastName) = <<>>) =>
     download = DefaultBase \o PngSuffix

\* C9 Shuffle keeps the subject: a shuffle leaves the stored name as it was
\* and replaces the stored seed by the value it drew.
ShuffleKeepsSubject ==
  [][\A s \in Seeds :
       ShuffleWith(s) => /\ lastName' = lastName
                         /\ lastSeed' = s
                         /\ lastForge'.fresh
                         /\ lastForge'.arg = lastName]_vars

\* a shuffle of a submitted name has drawn the seed now stored
ShuffleKeepsSubjectWitness ==
  /\ lastForge.by = "shuffle"
  /\ lastName = <<"N","o","v","a">>
  /\ lastSeed = lastForge.seed

\* C10 Resize leaves identity unchanged: neither a resize event nor the
\* timer's re-render changes the stored name or seed; a step that changes
\* either is the startup forge, a submit or a shuffle.
ResizeKeepsIdentity ==
  [][/\ (Resize \/ Fire) => (lastName' = lastName /\ lastSeed' = lastSeed)
     /\ (lastName' # lastName \/ lastSeed' # lastSeed) =>
          lastForge'.by \in {"load", "submit", "shuffle"}]_vars

\* the timer has re-rendered a shuffled name under another pixel ratio
ResizeKeepsIdentityWitness ==
  /\ lastForge.by = "timer"
  /\ lastName = <<"!","!","!">>
  /\ burst.renders = 1
  /\ canvas.st.scale = 2

\* the painting calls of the glow blobs and of the sparks on a canvas
Blobs(cv) ==
  {i \in DOMAIN cv.cmds :
     cv.cmds[i].op = "fill arc" /\ cv.sts[cv.cmds[i].st].fillStyle.kind = "radial"}
Sparks(cv) ==
  {i \in DOMAIN cv.cmds :
     cv.cmds[i].op = "fill arc" /\ cv.sts[cv.cmds[i].st].fillStyle.kind = "color"}

\* C11: whatever value a draw returns, the blob count computed from it is
\* 4, 5 or 6 and the spark count is in 64..149; every render of the page
\* paints that many blobs and sparks, makes at most MaxDraws draws and
\* returns from all its layers.
BoundedDraws ==
  /\ gen.calls > 0 => gen.layers \in 4..6 /\ gen.count \in 64..149
  /\ loaded =>
       /\ Cardinality(Blobs(canvas)) \in 4..6
       /\ Cardinality(Sparks(canvas)) \in 64..149
       /\ lastForge.draws <= MaxDraws
       /\ lastForge.calls = LayerOrder

\* the largest value a draw can return gives the largest counts, next to a
\* finished render
BoundedDrawsWitness ==
  /\ loaded
  /\ gen.calls > 0
  /\ gen.u = RngModulus - 1
  /\ gen.layers = 6
  /\ gen.count = 149

\* the elements of a sequence
Range(seq) == {seq[i] : i \in DOMAIN seq}
\* the font families of the text painted on a canvas and the colours of
\* its sparks
PaintedFonts(cv) ==
  {cv.sts[cv.cmds[i].st].font.family :
     i \in {j \in DOMAIN cv.cmds : cv.cmds[j].op \in {"fillText", "strokeText"}}}
SparkColors(cv) ==
  {cv.sts[cv.cmds[i].st].fillStyle.stops[1][3].css : i \in Sparks(cv)}

\* C12: whatever value a draw returns, the index floor(rng() * length) is
\* in 0..length-1 for every table, so pick returns a fixed palette, a fixed
\* font identifier and a colour of the palette's spark list, never
\* undefined; every palette has three non-empty colour lists; and in every
\* render of the page the palette is a fixed palette, the font painted is a
\* fixed font and every spark colour is in the chosen palette's spark list.
SelectorClosure ==
  /\ \A i \in DOMAIN palettes :
        /\ palettes[i].background # <<>>
        /\ palettes[i].text # <<>>
        /\ palettes[i].sparks # <<>>
  /\ gen.calls > 0 =>
       /\ \A n \in DOMAIN gen.picked.index : gen.picked.index[n] \in 0..(n - 1)
       /\ gen.picked.palette \in {palettes[i].name : i \in DOMAIN palettes}
       /\ gen.picked.font \in Range(fontFamilies)
       /\ \A i \in DOMAIN palettes :
             gen.picked.sparks[i] \in Range(palettes[i].sparks)
  /\ loaded =>
       /\ \E i \in DOMAIN palettes :
             /\ lastForge.palette = palettes[i].name
             /\ SparkColors(canvas) \subseteq Range(palettes[i].sparks)
       /\ PaintedFonts(canvas) # {}
       /\ PaintedFonts(canvas) \subseteq Range(fontFamilies)
       /\ Undefined \notin PaintedFonts(canvas) \cup SparkColors(canvas)

\* the largest value a draw can return picks the last element of every
\* table, next to a finished render
SelectorClosureWitness ==
  /\ loaded
  /\ Sparks(canvas) # {}
  /\ gen.calls > 0
  /\ gen.u = RngModulus - 1
  /\ gen.picked.palette = palettes[Len(palettes)].name
  /\ gen.picked.font = fontFamilies[Len(fontFamilies)]

\* the state t as a signed 32-bit value is negative
Negative(t) == t.hi >= 32768
\* the states -2^31, 2147483647 and -2147483647
MinInt32 == [hi |-> 32768, lo |-> 0]
PlusModulus == [hi |-> 32767, lo |-> 65535]
MinusModulus == [hi |-> 32768, lo |-> 1]

\* C13: every value rng() returns is u / 2147483647 with 0 <= u < 2147483647,
\* that is >= 0 and < 1, for every seed (in [0, 1) or not) and every call,
\* also when the state the call leaves is negative, -2^31 or +/-2147483647.
RngRange == gen.calls > 0 => gen.u \in 0..(RngModulus - 1)

\* a call has left the state -2^31, whose value returned is 1 / 2147483647
RngRangeWitness ==
  /\ gen.calls > 0
  /\ gen.t = MinInt32
  /\ gen.u = 1
\* calls have left +2147483647 and -2147483647 (value 0), and a negative
\* state in the stream of a seed
RngRangePlus == gen.calls > 0 /\ gen.t = PlusModulus /\ gen.u = 0
RngRangeMinus == gen.calls > 0 /\ gen.t = MinusModulus /\ gen.u = 0
RngRangeNegative == gen.from = "seed" /\ gen.calls > 0 /\ Negative(gen.t)

\* the value hi * 65536 + lo is in the signed 32-bit range (it is never
\* negative here) and is not zero
InInt32Range(t) == t.hi < 32768
NonZero(t) == t.hi # 0 \/ t.lo # 0

\* C14: for every seed handed to rngFromSeed, in [0, 1) or not, the state
\* of the closure before its first call is a nonzero integer of the signed
\* 32-bit range.
SeedNormalization ==
  (gen.from = "seed" /\ gen.calls = 0) =>
    NonZero(gen.t) /\ InInt32Range(gen.t)

\* C19: for every seed in [0, 1), the 32-bit state of the closure is
\* nonzero before the first call and after every call: after each of up to
\* MaxCalls calls of a closure on its own, at the extreme states of the
\* stream, and after each of the draws of a render of the page.
NeverZero ==
  /\ (gen.from = "stream" \/ (gen.from = "seed" /\ gen.seed \in UnitSeeds)) =>
       NonZero(ToInt32(gen.t))
  /\ loaded =>
       /\ NonZero(ToInt32(rngFromSeed(lastForge.seed)))
       /\ \A i \in 1..lastForge.draws :
             NonZero(RngStream[lastForge.seed][i].t)

\* the seed 0, whose product is zero, after MaxCalls calls, next to a render
\* from the same seed
NeverZeroWitness ==
  /\ gen.from = "seed"
  /\ gen.seed = 0
  /\ gen.calls = MaxCalls
  /\ loaded
  /\ lastForge.seed = 0
  /\ lastForge.draws > MaxCalls

\* C15: whenever the export handler has run, a complete render has
\* finished before it: the script has run to its end, a forge has made all
\* its layer calls and the canvas holds what they painted (background, text,
\* sparks); the first forge of every execution is the startup forge with the
\* default name.
RenderBeforeExport ==
  /\ download # <<>> =>
       /\ loaded
       /\ lastForge.by # "none"
       /\ lastForge.calls = LayerOrder
       /\ canvas.cmds # <<>>
       /\ PaintedTexts(canvas) # {}
       /\ Blobs(canvas) # {}
       /\ Sparks(canvas) # {}
  /\ lastForge.by = "none" => ~loaded /\ download = <<>>
  /\ lastForge.by = "load" => lastForge.arg = DefaultName

\* the export handler has run right after the startup forge
RenderBeforeExportWitness ==
  /\ download # <<>>
  /\ lastForge.by = "load"
  /\ lastForge.stored = DefaultName

\* the denominators of the font sizes of the text painted on a canvas:
\* trimmed.length * 0.7, times 10 (1 stands for the quotient Infinity of a
\* division by zero, clamped to the largest size)
FontSizeDivisors(cv) ==
  {cv.sts[cv.cmds[i].st].font.size[2] :
     i \in {j \in DOMAIN cv.cmds : cv.cmds[j].op \in {"fillText", "strokeText"}}}

\* C16: once the script has run, the stored name has a character that is
\* not whitespace, and the text the typography layer painted is the trimmed
\* stored name, of length >= 1, so that the divisor of the font size is not
\* zero; whichever handler made the render.
NonBlankName ==
  loaded =>
    /\ Trim(lastName) # <<>>
    /\ lastForge.by \in {"load", "submit", "shuffle", "timer"}
    /\ PaintedTexts(canvas) = {Trim(lastName)}
    /\ \A text \in PaintedTexts(canvas) : Len(text) >= 1
    /\ FontSizeDivisors(canvas) = {7 * Len(Trim(lastName))}
    /\ \A d \in FontSizeDivisors(canvas) : d > 0

\* a resize re-render after a submit of whitespace only
NonBlankNameWitness ==
  /\ loaded
  /\ lastForge.by = "timer"
  /\ lastName = FallbackName
  /\ burst.name = FallbackName
\* renders by submit of an empty field, by shuffle and at startup
NonBlankNameSubmit == lastForge.by = "submit" /\ lastForge.arg = <<>>
NonBlankNameShuffle == lastForge.by = "shuffle"
NonBlankNameStartup == lastForge.by = "load"

\* the values of rng() that a painting call of a canvas was computed from,
\* read off its arguments and its drawing state: for a glow blob the hue
\* shift, the alpha, the radius, x and y; for the text the rotation and the
\* shadow blur; for a spark x, y, the size and the alpha
BlobValues(cmd, st) ==
  << st.fillStyle.stops[1][3].params[1][4],
     st.fillStyle.stops[1][3].params[2][4],
     cmd.args[3][4], cmd.args[1][4], cmd.args[2][4] >>
TextValues(cmd, st) == << st.rotate[4], st.shadowBlur[4] >>
SparkValues(cmd, st) ==
  << cmd.args[1][4], cmd.args[2][4], cmd.args[3][4], st.globalAlpha[4] >>
\* the values that calls from + 1 .. from + n of the stream S returned
Slice(S, from, n) == [i \in 1..n |-> S[from + i].u]

\* the draws of a forge whose canvas is cv, with b blobs and k sparks,
\* against the stream S of its seed
Ledger(cv, f, S, b, k) ==
  \* 1 draw: the palette
  /\ f.palette = palettes[SelectorIndex(S[1].u, Len(palettes)) + 1].name
  /\ f.marks[1] = 1
  \* Background: 1 + 5 * b draws
  /\ f.marks[2] = 1
  /\ b = BlobCount(S[2].u)
  /\ Blobs(cv) = 2..(b + 1)
  /\ \A j \in 1..b :
        BlobValues(cv.cmds[j + 1], cv.sts[cv.cmds[j + 1].st])
          = Slice(S, 2 + 5 * (j - 1), 5)
  \* Typography: 3 draws
  /\ f.marks[3] = 2 + 5 * b
  /\ cv.cmds[b + 2].op = "fillText"
  /\ cv.sts[cv.cmds[b + 2].st].font.family
       = fontFamilies[SelectorIndex(S[3 + 5 * b].u, Len(fontFamilies)) + 1]
  /\ TextValues(cv.cmds[b + 2], cv.sts[cv.cmds[b + 2].st])
       = Slice(S, 3 + 5 * b, 2)
  \* Particle: 1 + 5 * k draws
  /\ f.marks[4] = 5 + 5 * b
  /\ k = SparkCount(S[6 + 5 * b].u)
  /\ Sparks(cv) = (b + 5)..(b + 4 + k)
  /\ \A j \in 1..k :
        /\ SubSeq(SparkValues(cv.cmds[b + 4 + j],
                              cv.sts[cv.cmds[b + 4 + j].st]), 1, 3)
             = Slice(S, 6 + 5 * b + 5 * (j - 1), 3)
        /\ \E i \in DOMAIN palettes :
             /\ palettes[i].name = f.palette
             /\ cv.sts[cv.cmds[b + 4 + j].st].fillStyle.stops[1][3].css
                  = palettes[i].sparks
                      [SelectorIndex(S[6 + 5 * b + 5 * (j - 1) + 4].u,
                                     Len(palettes[i].sparks)) + 1]
        /\ SparkValues(cv.cmds[b + 4 + j], cv.sts[cv.cmds[b + 4 + j].st])[4]
             = S[6 + 5 * b + 5 * j].u
  \* Texture: no draw
  /\ f.marks[5] = 6 + 5 * b + 5 * k
  /\ f.draws = 6 + 5 * b + 5 * k

\* C18: every value a forge uses comes from the one stream of its seed, in
\* call order and each once: call 1 picks the palette; Background makes
\* calls 2 .. 2 + 5 * blobCount (the count, then hue shift, alpha, radius, x,
\* y per blob); Typography makes the next 3 (font, rotation, blur); Particle
\* the next 1 + 5 * sparkCount (the count, then x, y, size, colour, alpha per
\* spark); Texture none; each pick uses one call.
SingleStream ==
  loaded =>
    /\ Len(lastForge.marks) = 5
    /\ Ledger(canvas, lastForge, RngStream[lastForge.seed],
              Cardinality(Blobs(canvas)), Cardinality(Sparks(canvas)))

\* a resize re-render and a shuffle, each with its draws accounted for
SingleStreamWitness ==
  /\ lastForge.by = "timer"
  /\ lastForge.draws >= 1 + (1 + 5 * 4) + 3 + (1 + 5 * 64)
  /\ lastForge.marks[5] = lastForge.draws

\* C20: a step of handleForge, handleShuffle or handleDownload leaves the
\* armed timers and resizeTimeout as they were, so a re-render pending
\* before it is pending after it; a pending re-render ends only by firing,
\* and the firing leaves none pending (it fires once); and a pending
\* re-render does fire, the one armed last if resize events replace it.
SlotFrame ==
  [][/\ (timers' # timers \/ resizeTimeout' # resizeTimeout) =>
          ~(handleForge \/ handleShuffle \/ handleDownload)
     /\ (timers # {} /\ timers' = {}) => Fire
     /\ Fire => (Cardinality(timers) = 1 /\ timers' = {})]_vars
OnlyResizeTouchesSlot ==
  /\ SlotFrame
  /\ (timers # {}) ~> (timers = {} /\ lastForge.by = "timer")

\* a re-render was pending when a submit ran (which ended the burst), and
\* has fired since
OnlyResizeTouchesSlotWitness ==
  /\ lastForge.by = "timer"
  /\ timers = {}
  /\ resizeTimeout # NoTimer
  /\ burst = NoBurst

\* C17: a step in which the user changes a filter control (dataset, season,
\* week, team, player, limit or sort) starts a fetch that ends in a stats
\* query, without a submit: the query itself, or the metadata fetch that
\* runStatsQuery follows.
FiltersDriveQueries ==
  [][dash'.edits > dash.edits =>
       /\ Len(dash'.tasks) = Len(dash.tasks) + 1
       /\ dash'.tasks[Len(dash'.tasks)].kind \in {"stats", "meta"}]_vars

\* C21 Stats responses are not reordered: once no fetch is awaited any more,
\* the answer that was handled last, whose table, summary and status the
\* page shows, is the answer to the stats query issued last.
LatestQueryShown ==
  (dash.tasks = <<>> /\ dash.queries > 0) => dash.answered = dash.queries

\* the reordering seen on the page: no fetch is awaited, and the table on
\* display is the answer to a query for another dataset than the one
\* selected, although a later query asked for the selected one
StaleTable ==
  /\ dash.tasks = <<>>
  /\ ~dash.hidden
  /\ dash.table.shown
  /\ dash.table.params["dataset"] # dash.value["dataset"]
  /\ dash.answered < dash.queries

\* C22 Refresh button lifecycle: refreshButton is disabled exactly while the
\* click listener awaits one of its fetches (the update request, the
\* metadata reload, the stats query), whatever the answers were, and a
\* disabled button is enabled again once those fetches are answered.
RefreshInFlight ==
  \E i \in DOMAIN dash.tasks : dash.tasks[i].by = "refresh"
RefreshLifecycle ==
  /\ [](dash.refreshing <=> RefreshInFlight)
  /\ (dash.refreshing ~> ~dash.refreshing)

\* the click listener has ended after an update that succeeded and a stats
\* query that failed, and the button is enabled
RefreshLifecycleWitness ==
  /\ dash.refreshStatus = "Refresh complete"
  /\ dash.status = "Stats lookup failed"
  /\ dash.tasks = <<>>
  /\ ~dash.refreshing
====
